---------------------------- MODULE Spec2Model ----------------------------
(***************************************************************************)
(* The trade-offer lifecycle and the mobile confirmation subsystem of      *)
(* steam.py: TradeOffer (src/steam/trade.py), Confirmation                 *)
(* (src/steam/guard.py) and the send flow of User (src/steam/user.py).     *)
(*                                                                         *)
(* Scheduling is asyncio's: a coroutine runs without interruption from one *)
(* await that suspends to the next.  One step of a task in this model is   *)
(* exactly that: what the task does from the moment it is resumed (with a  *)
(* response, a failure or a timer) until it suspends again or ends.        *)
(***************************************************************************)
EXTENDS Integers, Sequences, FiniteSets, TLC

VARIABLES
    offer,            \* the TradeOffer object (id = 0: not constructed yet)
    identity_secret,  \* client.identity_secret is configured
    ignore,           \* ConnectionState._confirmations_to_ignore (a list)
    watch,            \* ConnectionState._trades_to_watch (a set)
    trades,           \* keys of ConnectionState._trades
    settled,          \* trade ids whose settlement signal has arrived
    events,           \* what ConnectionState.dispatch was called with
    updates,          \* number of server refreshes applied to the offer
    task,             \* the coroutines: task[t] is the state of task t
    inventory,        \* the Inventory object (built = FALSE: not constructed yet)
    call              \* the last call of a synchronous function: arguments and result

vars == <<offer, identity_secret, ignore, watch, trades, settled, events, updates, task,
          inventory, call>>

---------------------------------------------------------------------------
(* Bounds of the model *)

MaxUpdates == 1

(* Program constants *)

StopAfterAttempt == 4
WaitFixed == 4
SendTries == 5
BackoffFactor == 2

Tasks == {"t1"}
TradeIds == {1, 2}

(* The id the server gives the offer it reports. *)
OfferIds == {1}
None == 0

ETradeOfferState ==
    {"Invalid", "Active", "Accepted", "Countered", "Expired", "Canceled",
     "Declined", "InvalidItems", "ConfirmationNeed", "CanceledBySecondFactor",
     "InEscrow"}

(* Item lists of a payload: at most one item to give and one to receive. *)
GiveLists ==
    {<<>>, <<[assetid |-> 1, amount |-> 1, classid |-> 1, instanceid |-> 1, name |-> "a"]>>}
ReceiveLists ==
    {<<>>, <<[assetid |-> 2, amount |-> 1, classid |-> 2, instanceid |-> 1, name |-> "b"]>>}

(* The JSON mapping a confirmation endpoint answers with: whether it has a *)
(* "success" key, that key's value, and whether it has any other key.      *)
RespOk == [has |-> TRUE, success |-> TRUE, extra |-> FALSE]
RespBare == [has |-> TRUE, success |-> FALSE, extra |-> FALSE]
RespRejected == [has |-> TRUE, success |-> FALSE, extra |-> TRUE]
RespNoSuccess == [has |-> FALSE, success |-> FALSE, extra |-> TRUE]
ConfResponses == {RespOk, RespBare, RespRejected, RespNoSuccess}

(* The mapping a trade endpoint answers with. *)
TradeResponses == [needs_mobile_confirmation : BOOLEAN, tradeofferid : TradeIds]

NoOffer ==
    [id |-> 0, state |-> "Invalid", items_to_send |-> <<>>,
     items_to_receive |-> <<>>, is_our_offer |-> FALSE]

NoInventory == [built |-> FALSE, items |-> <<>>, game |-> "None", count |-> 0, next |-> 1]

NoCall == [fn |-> "", args |-> <<>>, result |-> <<>>]

IdleTask ==
    [op |-> "", pc |-> "idle", conf |-> None, cop |-> "", attempt |-> 0,
     tries |-> 0, lookup |-> None, got |-> "", flag |-> FALSE, rid |-> None,
     at |-> NoOffer, calls |-> {}, reqs |-> 0,
     resps |-> <<>>, failed |-> 0, waits |-> <<>>, slept |-> <<>>, outcomes |-> <<>>, ev |-> <<>>,
     result |-> "", msg |-> ""]

---------------------------------------------------------------------------
(* The machine a step runs on: one task together with the shared objects   *)
(* it can touch, and the signal of the frame that is running: "" (the task *)
(* is suspended at s.pc), "ret" (the frame returned) or "raise" (it raised *)
(* the exception err with message msg).                                    *)

Machine(t) ==
    [s |-> [task[t] EXCEPT !.ev = <<>>], offer |-> offer, ignore |-> ignore,
     watch |-> watch, trades |-> trades, events |-> events,
     sig |-> "", err |-> "", msg |-> ""]

Emit(m, kind, what) == [m EXCEPT !.s.ev = Append(@, <<kind, what>>)]

Enter(m, fn) == Emit(m, "enter", fn)

(* Entering an action of the TradeOffer; s.at keeps the offer as it is then. *)
EnterAction(m, fn) == [Enter(m, fn) EXCEPT !.s.at = m.offer]

Return(m, fn) == [Emit(m, "return", fn) EXCEPT !.sig = "ret", !.err = "", !.msg = ""]

Raise(m, kind, text) ==
    [Emit(m, "raise", text) EXCEPT !.sig = "raise", !.err = kind, !.msg = text]

(* The task issues a request to an endpoint and suspends until it answers. *)
Await(m, endpoint) ==
    [Emit(m, "call", endpoint) EXCEPT
        !.s.calls = @ \cup {endpoint}, !.s.pc = endpoint, !.sig = ""]

(* The top-level coroutine ended: with its value, or with the exception. *)
Finish(m) ==
    IF m.sig = "" THEN m
    ELSE [m EXCEPT !.s.pc = "done",
                   !.s.result = IF m.sig = "ret" THEN "ok" ELSE m.err,
                   !.s.msg = IF m.sig = "ret" THEN "" ELSE m.msg,
                   !.sig = ""]

Commit(t, m) ==
    /\ m.sig = ""
    /\ task' = [task EXCEPT ![t] = m.s]
    /\ offer' = m.offer
    /\ ignore' = m.ignore
    /\ watch' = m.watch
    /\ trades' = m.trades
    /\ events' = m.events
    /\ UNCHANGED <<inventory, call>>


---------------------------------------------------------------------------
(* Python values the guards compute with *)

(* A tuple of enum members, and a single enum member. *)
Tuple(S) == [kind |-> "tuple", elems |-> S, member |-> ""]
Member(x) == [kind |-> "member", elems |-> {}, member |-> x]

(* a or b: a when a is truthy, and every member of ETradeOfferState is.    *)
Or(a, b) == IF a.kind = "member" \/ a.elems # {} THEN a ELSE b

(* x not in c: membership in a tuple; an enum member is an int and no      *)
(* container, so the test raises TypeError.                                *)
NotIn(x, c) ==
    IF c.kind = "tuple" THEN (IF x \in c.elems THEN "False" ELSE "True")
    ELSE "TypeError"

(* The exception classes: errors.py of the library, and tenacity's.        *)
Bases(kind) ==
    CASE kind = "ConfirmationError" -> {"ConfirmationError", "ClientException", "Exception"}
      [] kind = "ClientException" -> {"ClientException", "Exception"}
      [] kind = "HTTPException" -> {"HTTPException", "ClientException", "Exception"}
      [] kind = "CancelledError" -> {"CancelledError"}
      [] OTHER -> {kind, "Exception"}

IsInstance(kind, cls) == cls \in Bases(kind)

---------------------------------------------------------------------------
(* Asset, Item and Inventory: src/steam/trade.py *)

(* An object of another class, for the isinstance test of Asset.__eq__. *)
NotAnAsset == [class |-> "object"]

(* Asset.__init__ and Item.__init__: the object built from a payload entry; *)
(* oid tells one object from another.                                       *)
Item(oid, data, missing) ==
    [class |-> "Item", oid |-> oid, asset_id |-> data.assetid, amount |-> data.amount,
     instance_id |-> data.instanceid, class_id |-> data.classid,
     name |-> data.name, missing |-> missing]

(* A variant that also compares the asset ids. *)
Asset_eq_SameAssetId(x, y) ==
    /\ y.class \in {"Asset", "Item"}
    /\ x.instance_id = y.instance_id /\ x.class_id = y.class_id
    /\ x.asset_id = y.asset_id

Asset_eq(x, y) ==
    /\ y.class \in {"Asset", "Item"}
    /\ x.instance_id = y.instance_id /\ x.class_id = y.class_id

Asset_ne(x, y) == ~Asset_eq(x, y)

(* item.update(asset): the description with the entries of the asset. *)
Merged(item, asset) ==
    [assetid |-> asset.assetid, amount |-> asset.amount,
     instanceid |-> asset.instanceid, classid |-> asset.classid, name |-> item.name]

(* An asset entry read as the data of an Item: it has no name. *)
Bare(asset) ==
    [assetid |-> asset.assetid, amount |-> asset.amount,
     instanceid |-> asset.instanceid, classid |-> asset.classid, name |-> "None"]

RECURSIVE ScanDescriptions(_, _, _, _)

(* Lines 249-252: the inner loop over the descriptions from place j on; acc *)
(* is the inventory with the items appended so far.                         *)
ScanDescriptions(acc, asset, descriptions, j) ==
    IF j > Len(descriptions) THEN acc
    ELSE LET item == descriptions[j] IN
         IF item.instanceid = asset.instanceid /\ item.classid = asset.classid
         THEN ScanDescriptions(
                  [acc EXCEPT !.items = Append(@, Item(acc.next, Merged(item, asset), FALSE)),
                              !.next = @ + 1],
                  asset, descriptions, j + 1)
         ELSE ScanDescriptions(acc, asset, descriptions, j + 1)

RECURSIVE ScanAssets(_, _, _)

(* Lines 248-253: the outer loop over the assets from place i on. *)
ScanAssets(acc, data, i) ==
    IF i > Len(data.assets) THEN acc
    ELSE LET asset == data.assets[i]
             scanned == ScanDescriptions(acc, asset, data.descriptions, 1)
         IN  ScanAssets(
                 [scanned EXCEPT !.items = Append(@, Item(scanned.next, Bare(asset), TRUE)),
                                 !.next = @ + 1],
                 data, i + 1)

(* Inventory._update: the inventory after it, and the exception it raises   *)
(* ("" when it returns).                                                   *)
Inventory_update(inv, data) ==
    IF ~data.has_assets
    THEN [inv |-> [inv EXCEPT !.game = "None", !.items = <<>>, !.count = 0], err |-> ""]
    ELSE IF data.assets = <<>>
    THEN [inv |-> inv, err |-> "IndexError"]
    ELSE [inv |-> [ScanAssets([inv EXCEPT !.game = "Game"], data, 1) EXCEPT
                       !.count = data.total_inventory_count],
          err |-> ""]

(* list(filter(lambda i: i.name == item_name, self.items)) *)
Named(items, item_name) == SelectSeq(items, LAMBDA i : i.name = item_name)

(* An optional int argument: None or a value. *)
NoLimit == [given |-> FALSE, value |-> 0]
Limit(n) == [given |-> TRUE, value |-> n]

(* items[:n] for n >= 0 *)
Slice(items, n) == SubSeq(items, 1, IF n < Len(items) THEN n ELSE Len(items))

(* list.remove(item): without the first element that is equal to item. *)
Remove(items, item) ==
    LET I == {i \in 1..Len(items) : Asset_eq(items[i], item)} IN
    IF I = {} THEN items
    ELSE LET k == CHOOSE i \in I : \A j \in I : i <= j IN
         SubSeq(items, 1, k - 1) \o SubSeq(items, k + 1, Len(items))

RECURSIVE RemoveAll(_, _, _)

(* Lines 288-289: for item in items: self.items.remove(item), from place k. *)
RemoveAll(items, taken, k) ==
    IF k > Len(taken) THEN items
    ELSE RemoveAll(Remove(items, taken[k]), taken, k + 1)

(* Line 287: the items that are taken. *)
Taken(found, limit) ==
    Slice(found, IF ~limit.given THEN Len(found) - 1 ELSE limit.value)

(* Inventory.filter_items: the list returned and the inventory after it. *)
filter_items(inv, item_name, limit) ==
    LET found == Named(inv.items, item_name)
        items == IF found = <<>> THEN <<>> ELSE Taken(found, limit)
    IN  [result |-> items, inv |-> [inv EXCEPT !.items = RemoveAll(@, items, 1)]]

(* utils.find(predicate, seq): the first element the predicate holds of,    *)
(* as a list of at most one element.                                        *)
find(items, item_name) == Slice(Named(items, item_name), 1)

(* A variant that leaves the item in the list. *)
get_item_Keeps(inv, item_name) ==
    [result |-> find(inv.items, item_name), inv |-> inv]

(* Inventory.get_item: the item returned (<<>> for None) and the inventory  *)
(* after it.                                                               *)
get_item(inv, item_name) ==
    LET item == find(inv.items, item_name) IN
    IF item # <<>>
    THEN [result |-> item, inv |-> [inv EXCEPT !.items = Remove(@, item[1])]]
    ELSE [result |-> <<>>, inv |-> inv]

---------------------------------------------------------------------------
(* TradeOffer: src/steam/trade.py *)

(* [Item(state=self._state, data=item) for item in entries]: the objects of *)
(* an offer are never told apart by identity.                              *)
Items(entries) == [i \in 1..Len(entries) |-> Item(0, entries[i], FALSE)]

(* The payload entry an Item was built from. *)
Entry(item) ==
    [assetid |-> item.asset_id, amount |-> item.amount, classid |-> item.class_id,
     instanceid |-> item.instance_id, name |-> item.name]

Entries(items) == [i \in 1..Len(items) |-> Entry(items[i])]

(* A variant that builds both lists from items_to_give. *)
_update_GiveOnly(data) ==
    [id |-> data.tradeofferid,
     state |-> data.trade_offer_state,
     items_to_send |-> Items(data.items_to_give),
     items_to_receive |-> Items(data.items_to_give),
     is_our_offer |-> data.is_our_offer]

_update(data) ==
    [id |-> data.tradeofferid,
     state |-> data.trade_offer_state,
     items_to_send |-> Items(data.items_to_give),
     items_to_receive |-> Items(data.items_to_receive),
     is_our_offer |-> data.is_our_offer]

Payloads ==
    [tradeofferid : OfferIds, trade_offer_state : ETradeOfferState,
     items_to_give : GiveLists, items_to_receive : ReceiveLists,
     is_our_offer : BOOLEAN]

is_gift(o) == o.items_to_receive # <<>> /\ ~(o.items_to_send # <<>>)

(* A variant that knows only the offers that give. *)
is_one_sided_GiveOnly(o) ==
    IF ~(o.items_to_receive # <<>>) /\ o.items_to_send # <<>> THEN TRUE
    ELSE FALSE

is_one_sided(o) ==
    IF ~(o.items_to_receive # <<>>) /\ o.items_to_send # <<>> THEN TRUE
    ELSE IF o.items_to_receive # <<>> /\ ~(o.items_to_send # <<>>) THEN TRUE
    ELSE FALSE

is_our_offer(o) == o.is_our_offer

---------------------------------------------------------------------------
(* Steam Guard codes: generate_one_time_code, src/steam/guard.py *)

(* The length of a time window in seconds, and the length of a code. *)
Period == 30
CodeLength == 5

Chars ==
    <<"2", "3", "4", "5", "6", "7", "8", "9", "B", "C", "D", "F", "G",
      "H", "J", "K", "M", "N", "P", "Q", "R", "T", "V", "W", "X", "Y">>

(* An optional timestamp argument: None or a value. *)
NoTimestamp == [given |-> FALSE, value |-> 0]
Timestamp(n) == [given |-> TRUE, value |-> n]

(* The truth value of an optional int: None and 0 are false. *)
Truthy(x) == x.given /\ x.value # 0

(* The four bytes of the HMAC-SHA1 digest of the packed counter under the   *)
(* secret that the code is read from, as the top bit and the 31 bits below  *)
(* it: a fixed function of the secret and of the counter.                   *)
TimeHmac(shared_secret, counter) ==
    [top |-> (shared_secret + counter) % 2,
     low |-> (shared_secret * 7919 + counter * 104729) * 4001 + 12345]

(* word & 0x7FFFFFFF *)
ClearTop(word) == word.low

RECURSIVE CodeChars(_, _)

(* Lines 49-51: n times divmod by len(chars), lowest digit first. *)
CodeChars(full_code, n) ==
    IF n = 0 THEN <<>>
    ELSE <<Chars[(full_code % Len(Chars)) + 1]>> \o CodeChars(full_code \div Len(Chars), n - 1)

(* generate_one_time_code, called when time.time() is now. *)
generate_one_time_code(shared_secret, timestamp, now) ==
    LET ts == IF Truthy(timestamp) THEN timestamp.value ELSE now IN
    CodeChars(ClearTop(TimeHmac(shared_secret, ts \div Period)), CodeLength)

---------------------------------------------------------------------------

(* Confirmation: src/steam/guard.py *)

(* resp.get("success", False) *)
GetSuccess(resp) == IF resp.has THEN resp.success ELSE FALSE

(* A variant that raises without recording the trade id. *)
_assert_valid_NoRecord(m, resp) ==
    IF ~GetSuccess(resp) THEN Raise(m, "ConfirmationError", "") ELSE m

(* A variant that empties the list once a response reports success. *)
_assert_valid_Forgets(m, resp) ==
    IF ~GetSuccess(resp)
    THEN Raise([Emit(m, "ignore", "trade_id") EXCEPT !.ignore = Append(@, m.s.conf)],
               "ConfirmationError", "")
    ELSE [m EXCEPT !.ignore = <<>>]

_assert_valid(m, resp) ==
    IF ~GetSuccess(resp)
    THEN Raise([Emit(m, "ignore", "trade_id") EXCEPT !.ignore = Append(@, m.s.conf)],
               "ConfirmationError", "")
    ELSE m

(* One attempt of _perform_op up to its request. *)
PerformOpAttempt(m) ==
    Await([m EXCEPT !.s.reqs = @ + 1], "ajaxop")

(* The rest of the attempt, once the endpoint has answered. *)
PerformOpResume(m, resp) ==
    LET r == [m EXCEPT !.s.resps = Append(@, resp)]
        v == _assert_valid(r, resp)
    IN  IF v.sig = "raise" THEN v
        ELSE IF r.s.cop = "allow" /\ resp = RespBare THEN Raise(v, "TryAgain", "")
        ELSE Return(v, "_perform_op")

(* A variant that retries after TryAgain only and lets every other error    *)
(* through.                                                                *)
retry_OnlyTryAgain(m) ==
    IF m.sig = "ret" THEN m
    ELSE IF m.err # "TryAgain" THEN m
    ELSE IF m.s.attempt >= StopAfterAttempt THEN Raise(m, "RetryError", "")
    ELSE [m EXCEPT !.sig = "", !.err = "", !.msg = "", !.s.pc = "retry_wait",
                   !.s.waits = Append(@, WaitFixed)]

(* A variant that stops one attempt late. *)
retry_StopsLate(m) ==
    IF m.sig = "ret" THEN m
    ELSE IF ~(m.err = "TryAgain" \/ IsInstance(m.err, "Exception")) THEN m
    ELSE IF m.s.attempt > StopAfterAttempt THEN Raise(m, "RetryError", "")
    ELSE [m EXCEPT !.sig = "", !.err = "", !.msg = "", !.s.pc = "retry_wait",
                   !.s.waits = Append(@, WaitFixed)]

(* A variant that retries after whatever the attempt raised. *)
retry_AnyBaseException(m) ==
    IF m.sig = "ret" THEN m
    ELSE IF m.s.attempt >= StopAfterAttempt THEN Raise(m, "RetryError", "")
    ELSE [m EXCEPT !.sig = "", !.err = "", !.msg = "", !.s.pc = "retry_wait",
                   !.s.waits = Append(@, WaitFixed)]

(* tenacity's decision after an attempt of the decorated coroutine.        *)
retry(m) ==
    IF m.sig = "ret" THEN m
    ELSE IF ~(m.err = "TryAgain" \/ IsInstance(m.err, "Exception")) THEN m
    ELSE IF m.s.attempt >= StopAfterAttempt THEN Raise(m, "RetryError", "")
    ELSE [m EXCEPT !.sig = "", !.err = "", !.msg = "", !.s.pc = "retry_wait",
                   !.s.waits = Append(@, WaitFixed)]

_perform_op(m, op) ==
    PerformOpAttempt([Enter(m, "_perform_op") EXCEPT
        !.s.cop = op, !.s.attempt = 1, !.s.reqs = 0, !.s.resps = <<>>,
        !.s.failed = 0, !.s.waits = <<>>])

Confirmation_confirm(m) == _perform_op(m, "allow")

Confirmation_cancel(m) == _perform_op(m, "cancel")

Confirmation_details(m) ==
    Await([Enter(m, "details") EXCEPT
               !.s.resps = <<>>, !.s.reqs = 1, !.s.failed = 0, !.s.waits = <<>>],
          "details")

DetailsResume(m, resp) ==
    LET r == [m EXCEPT !.s.resps = Append(@, resp)]
        v == _assert_valid(r, resp)
    IN  IF v.sig = "raise" THEN v ELSE Return(v, "details")

---------------------------------------------------------------------------
(* The actions of TradeOffer *)

TradeOffer_confirm(m) ==
    LET e == EnterAction(m, "confirm") IN
    IF is_gift(e.offer) THEN Return(e, "confirm")
    ELSE IF NotIn(e.offer.state, Tuple({"Active", "ConfirmationNeed"})) = "True"
    THEN Raise(e, "ClientException", "This trade cannot be confirmed")
    ELSE Await([e EXCEPT !.s.lookup = e.offer.id], "get_confirmation")

(* A variant that goes on to the confirmation without testing for None. *)
ConfirmResume_NoNoneTest(m, found) ==
    Confirmation_confirm([m EXCEPT !.s.conf = m.s.lookup])

ConfirmResume(m, found) ==
    IF found THEN Confirmation_confirm([m EXCEPT !.s.conf = m.s.lookup])
    ELSE Raise(m, "ConfirmationError",
               "No matching confirmation could be found for this trade")

(* A variant that marks the offer accepted before its last guard. *)
TradeOffer_accept_MarksFirst(m) ==
    LET e == EnterAction(m, "accept") IN
    IF e.offer.state # "Active"
    THEN Raise(e, "ClientException", "This trade is not active")
    ELSE IF is_our_offer(e.offer)
    THEN Raise([e EXCEPT !.offer.state = "Accepted"], "ClientException",
               "You cannot accept an offer the ClientUser has made")
    ELSE Await(e, "accept_user_trade")

TradeOffer_accept(m) ==
    LET e == EnterAction(m, "accept") IN
    IF e.offer.state # "Active"
    THEN Raise(e, "ClientException", "This trade is not active")
    ELSE IF e.offer.state = "Accepted"
    THEN Raise(e, "ClientException", "This trade has already been accepted")
    ELSE IF is_our_offer(e.offer)
    THEN Raise(e, "ClientException", "You cannot accept an offer the ClientUser has made")
    ELSE Await(e, "accept_user_trade")

(* A variant that confirms whether or not an identity secret is configured. *)
AcceptResume_IgnoresSecret(m, resp, secret) ==
    IF resp.needs_mobile_confirmation THEN TradeOffer_confirm(m) ELSE Return(m, "accept")

(* A variant that records the acceptance in the offer. *)
AcceptResume_MarksAccepted(m, resp, secret) ==
    LET a == [m EXCEPT !.offer.state = "Accepted"] IN
    IF resp.needs_mobile_confirmation
    THEN IF secret THEN TradeOffer_confirm(a) ELSE Return(a, "accept")
    ELSE Return(a, "accept")

AcceptResume(m, resp, secret) ==
    IF resp.needs_mobile_confirmation
    THEN IF secret THEN TradeOffer_confirm(m) ELSE Return(m, "accept")
    ELSE Return(m, "accept")

TradeOffer_decline(m) ==
    LET e == EnterAction(m, "decline")
        test == NotIn(e.offer.state, Or(Member("Active"), Member("ConfirmationNeed")))
    IN  IF test = "TypeError"
        THEN Raise(e, "TypeError", "argument of type 'ETradeOfferState' is not iterable")
        ELSE IF test = "True"
        THEN Raise(e, "ClientException", "This trade is not active")
        ELSE IF e.offer.state = "Declined"
        THEN Raise(e, "ClientException", "This trade has already been declined")
        ELSE IF is_our_offer(e.offer)
        THEN Raise(e, "ClientException", "You cannot decline an offer the ClientUser has made")
        ELSE Await(e, "decline_user_trade")

TradeOffer_cancel(m) ==
    LET e == EnterAction(m, "cancel")
        test == NotIn(e.offer.state, Or(Member("Active"), Member("ConfirmationNeed")))
    IN  IF test = "TypeError"
        THEN Raise(e, "TypeError", "argument of type 'ETradeOfferState' is not iterable")
        ELSE IF test = "True"
        THEN Raise(e, "ClientException", "This trade is not active")
        ELSE IF e.offer.state = "Canceled"
        THEN Raise(e, "ClientException", "This trade has already been cancelled")
        ELSE IF ~is_gift(e.offer)
        THEN Raise(e, "ClientException",
                   "Offer wasn't created by the ClientUser and therefore cannot be canceled")
        ELSE Await(e, "cancel_user_trade")

(* A variant without the guard. *)
TradeOffer_counter_NoGuard(m) ==
    Await(EnterAction(m, "counter"), "send_counter_trade_offer")

TradeOffer_counter(m) ==
    LET e == EnterAction(m, "counter") IN
    IF is_our_offer(e.offer)
    THEN Raise(e, "ClientException", "You cannot counter an offer the ClientUser has made")
    ELSE Await(e, "send_counter_trade_offer")

(* A variant that looks up the confirmation of the offer it counters. *)
CounterResume_OwnId(m, resp) ==
    IF resp.needs_mobile_confirmation
    THEN Await([m EXCEPT !.s.lookup = m.offer.id], "get_trade_confirmation")
    ELSE Return(m, "counter")

CounterResume(m, resp) ==
    IF resp.needs_mobile_confirmation
    THEN Await([m EXCEPT !.s.lookup = resp.tradeofferid], "get_trade_confirmation")
    ELSE Return(m, "counter")

CounterConfirm(m, found) ==
    IF found THEN Confirmation_confirm([m EXCEPT !.s.conf = m.s.lookup])
    ELSE Raise(m, "AttributeError", "'NoneType' object has no attribute 'confirm'")

---------------------------------------------------------------------------
(* The send flow: User.send, src/steam/user.py *)

(* TradeOffer._update_from_send: the offer takes the id of the response    *)
(* and is Active unless a confirmation is pending.                         *)
_update_from_send(o, resp, active) ==
    [o EXCEPT !.id = resp.tradeofferid,
              !.state = IF active THEN "Active" ELSE "ConfirmationNeed"]

(* A variant that waits for the trade without adding it to the set. *)
SendRegister_NoWatch(m) ==
    [m EXCEPT !.trades = @ \cup {m.offer.id},
              !.s.pc = "wait_for_trade", !.sig = "", !.err = "", !.msg = ""]

(* Lines 230-233: register the trade and wait for its settlement.          *)
SendRegister(m) ==
    [Emit(m, "watch", "trade_id") EXCEPT
        !.trades = @ \cup {m.offer.id},
        !.watch = @ \cup {m.offer.id},
        !.s.pc = "wait_for_trade", !.sig = "", !.err = "", !.msg = ""]

(* A variant that leaves the state as the loop left it. *)
SendAfterLoop_KeepsState(m) == SendRegister(m)

(* Line 228, after the loop. *)
SendAfterLoop(m) == SendRegister([m EXCEPT !.offer.state = "Active"])

(* A variant that sleeps the same time after every attempt. *)
Backoff_Flat(tries) == BackoffFactor

(* Line 227: the time slept after the attempt of index tries failed. *)
Backoff(tries) == tries * BackoffFactor

RECURSIVE SendLoop(_)

(* A variant whose handlers are in the other order: ConfirmationError is    *)
(* caught as the ClientException it is.                                    *)
SendHandle_NoBreak(r) ==
    IF r.sig = "" THEN r
    ELSE IF r.sig = "ret"
    THEN SendLoop([r EXCEPT !.sig = "", !.s.tries = @ + 1,
                            !.s.outcomes = Append(@, "ok")])
    ELSE IF IsInstance(r.err, "ClientException")
    THEN [r EXCEPT !.sig = "", !.err = "", !.msg = "", !.s.pc = "sleep",
                   !.s.outcomes = Append(@, r.err),
                   !.s.slept = Append(@, Backoff(r.s.tries))]
    ELSE Finish([r EXCEPT !.s.outcomes = Append(@, r.err)])

(* Lines 222-227: what the loop does with the outcome of trade.confirm().  *)
SendHandle(r) ==
    IF r.sig = "" THEN r
    ELSE IF r.sig = "ret"
    THEN SendLoop([r EXCEPT !.sig = "", !.s.tries = @ + 1,
                            !.s.outcomes = Append(@, "ok")])
    ELSE IF IsInstance(r.err, "ConfirmationError")
    THEN SendAfterLoop([r EXCEPT !.s.outcomes = Append(@, r.err)])
    ELSE IF IsInstance(r.err, "ClientException")
    THEN [r EXCEPT !.sig = "", !.err = "", !.msg = "", !.s.pc = "sleep",
                   !.s.outcomes = Append(@, r.err),
                   !.s.slept = Append(@, Backoff(r.s.tries))]
    ELSE Finish([r EXCEPT !.s.outcomes = Append(@, r.err)])

(* A variant whose loop makes one attempt more. *)
SendLoop_OneMore(m) ==
    IF m.s.tries <= SendTries
    THEN SendHandle(TradeOffer_confirm(
             [m EXCEPT !.s.reqs = 0, !.s.resps = <<>>, !.s.failed = 0,
                       !.s.waits = <<>>]))
    ELSE SendAfterLoop(m)

(* Line 221: for tries in range(5). *)
SendLoop(m) ==
    IF m.s.tries < SendTries
    THEN SendHandle(TradeOffer_confirm(
             [m EXCEPT !.s.reqs = 0, !.s.resps = <<>>, !.s.failed = 0,
                       !.s.waits = <<>>]))
    ELSE SendAfterLoop(m)

(* Lines 217-233, once send_trade_offer has answered. *)
SendResume(m, resp) ==
    LET needs_confirmation == resp.needs_mobile_confirmation
        u == [m EXCEPT !.offer = _update_from_send(m.offer, resp, ~needs_confirmation)]
    IN  IF needs_confirmation THEN SendLoop([u EXCEPT !.s.tries = 0])
        ELSE SendRegister(u)

(* Lines 234-236, once wait_for_trade has returned. *)
SendDispatch(m) ==
    Return([Emit(m, "dispatch", "trade_send") EXCEPT
                !.events = Append(@, <<"trade_send", m.offer.id>>)], "send")

(* The frames above a call of Confirmation.confirm(): TradeOffer.confirm,  *)
(* accept and counter have no handler and nothing after the call; the loop *)
(* of the send flow handles the outcome.                                   *)
AfterConfirm(m) == IF m.s.op = "send" THEN SendHandle(m) ELSE Finish(m)

---------------------------------------------------------------------------
(* The initial state: a session with no offer and nothing recorded. *)

Init ==
    /\ offer = NoOffer
    /\ identity_secret \in BOOLEAN
    /\ ignore = <<>>
    /\ watch = {}
    /\ trades = {}
    /\ settled = {}
    /\ events = <<>>
    /\ updates = 0
    /\ task = [t \in Tasks |-> IdleTask]
    /\ inventory = NoInventory
    /\ call = NoCall

(* The task keeps the answer of the trade endpoint it awaited. *)
Received(m, resp) ==
    [m EXCEPT !.s.flag = resp.needs_mobile_confirmation, !.s.rid = resp.tradeofferid]

Begin(t, op) == [Machine(t) EXCEPT !.s.op = op]

Idle(t) == task[t].pc = "idle"

(* TradeOffer.__init__: an offer received from the server. *)
NewOffer(data) ==
    /\ offer.id = 0
    /\ \A t \in Tasks : Idle(t)
    /\ offer' = _update(data)
    /\ UNCHANGED <<identity_secret, ignore, watch, trades, settled, events, updates, task,
                   inventory, call>>

(* The poll of the session refreshes the offer: the server reports a new   *)
(* state of the same offer.                                                *)
Update(st) ==
    /\ offer.id # 0
    /\ updates < MaxUpdates
    /\ offer' = _update([tradeofferid |-> offer.id, trade_offer_state |-> st,
                         items_to_give |-> Entries(offer.items_to_send),
                         items_to_receive |-> Entries(offer.items_to_receive),
                         is_our_offer |-> offer.is_our_offer])
    /\ offer' # offer
    /\ updates' = updates + 1
    /\ UNCHANGED <<identity_secret, ignore, watch, trades, settled, events, task,
                   inventory, call>>

Confirm(t) ==
    /\ Idle(t) /\ offer.id # 0
    /\ Commit(t, Finish(TradeOffer_confirm(Begin(t, "confirm"))))
    /\ UNCHANGED <<identity_secret, settled, updates>>

Accept(t) ==
    /\ Idle(t) /\ offer.id # 0
    /\ Commit(t, Finish(TradeOffer_accept(Begin(t, "accept"))))
    /\ UNCHANGED <<identity_secret, settled, updates>>

Decline(t) ==
    /\ Idle(t) /\ offer.id # 0
    /\ Commit(t, Finish(TradeOffer_decline(Begin(t, "decline"))))
    /\ UNCHANGED <<identity_secret, settled, updates>>

Cancel(t) ==
    /\ Idle(t) /\ offer.id # 0
    /\ Commit(t, Finish(TradeOffer_cancel(Begin(t, "cancel"))))
    /\ UNCHANGED <<identity_secret, settled, updates>>

Counter(t) ==
    /\ Idle(t) /\ offer.id # 0
    /\ Commit(t, Finish(TradeOffer_counter(Begin(t, "counter"))))
    /\ UNCHANGED <<identity_secret, settled, updates>>

(* A trade endpoint answers. *)
TradeResponse(t, resp) ==
    /\ task[t].pc \in {"accept_user_trade", "decline_user_trade", "cancel_user_trade",
                       "send_counter_trade_offer"}
    /\ LET m == Received(Machine(t), resp) IN
       Commit(t, Finish(
           CASE m.s.pc = "accept_user_trade" -> AcceptResume(m, resp, identity_secret)
             [] m.s.pc = "send_counter_trade_offer" -> CounterResume(m, resp)
             [] m.s.pc = "decline_user_trade" -> Return(m, "decline")
             [] m.s.pc = "cancel_user_trade" -> Return(m, "cancel")))
    /\ UNCHANGED <<identity_secret, settled, updates>>

(* The confirmation manager answers a lookup: a confirmation or None. *)
LookupResult(t, found) ==
    /\ task[t].pc \in {"get_confirmation", "get_trade_confirmation"}
    /\ LET m == [Machine(t) EXCEPT !.s.got = IF found THEN "Confirmation" ELSE "None"] IN
       Commit(t, AfterConfirm(
           IF m.s.pc = "get_confirmation" THEN ConfirmResume(m, found)
           ELSE CounterConfirm(m, found)))
    /\ UNCHANGED <<identity_secret, settled, updates>>

(* Confirmation.confirm(), cancel() and details() called directly. *)
ConfConfirm(t, id) ==
    /\ Idle(t)
    /\ Commit(t, Confirmation_confirm([Begin(t, "Confirmation.confirm") EXCEPT !.s.conf = id]))
    /\ UNCHANGED <<identity_secret, settled, updates>>

ConfCancel(t, id) ==
    /\ Idle(t)
    /\ Commit(t, Confirmation_cancel([Begin(t, "Confirmation.cancel") EXCEPT !.s.conf = id]))
    /\ UNCHANGED <<identity_secret, settled, updates>>

ConfDetails(t, id) ==
    /\ Idle(t)
    /\ Commit(t, Confirmation_details([Begin(t, "Confirmation.details") EXCEPT !.s.conf = id]))
    /\ UNCHANGED <<identity_secret, settled, updates>>

(* A confirmation endpoint answers. *)
ConfResponse(t, resp) ==
    /\ task[t].pc \in {"ajaxop", "details"}
    /\ LET m == Machine(t) IN
       Commit(t, AfterConfirm(
           IF m.s.pc = "ajaxop" THEN retry(PerformOpResume(m, resp))
           ELSE DetailsResume(m, resp)))
    /\ UNCHANGED <<identity_secret, settled, updates>>

(* tenacity's wait is over: the next attempt. *)
RetryWake(t) ==
    /\ task[t].pc = "retry_wait"
    /\ Commit(t, PerformOpAttempt([Machine(t) EXCEPT !.s.attempt = @ + 1]))
    /\ UNCHANGED <<identity_secret, settled, updates>>

(* The transport fails the request a task is waiting for. *)
TransportFailure(t) ==
    /\ task[t].pc \in {"accept_user_trade", "decline_user_trade", "cancel_user_trade",
                       "send_counter_trade_offer", "get_confirmation",
                       "get_trade_confirmation", "ajaxop", "details", "send_trade_offer"}
    /\ LET m == Raise([Machine(t) EXCEPT !.s.failed = @ + 1], "HTTPException", "") IN
       Commit(t, AfterConfirm(IF m.s.pc = "ajaxop" THEN retry(m) ELSE m))
    /\ UNCHANGED <<identity_secret, settled, updates>>

(* User.send(trade=...) with a trade built by the caller. *)
Send(t, give, receive) ==
    /\ Idle(t) /\ offer.id = 0
    /\ Commit(t, Await([Enter(Begin(t, "send"), "send") EXCEPT
           !.offer = [NoOffer EXCEPT !.items_to_send = Items(give),
                                     !.items_to_receive = Items(receive),
                                     !.is_our_offer = TRUE]],
           "send_trade_offer"))
    /\ UNCHANGED <<identity_secret, settled, updates>>

SendResponse(t, resp) ==
    /\ task[t].pc = "send_trade_offer"
    /\ Commit(t, SendResume(Received(Machine(t), resp), resp))
    /\ UNCHANGED <<identity_secret, settled, updates>>

(* asyncio.sleep(tries * 2) is over. *)
SendWake(t) ==
    /\ task[t].pc = "sleep"
    /\ Commit(t, SendLoop([Machine(t) EXCEPT !.s.tries = @ + 1]))
    /\ UNCHANGED <<identity_secret, settled, updates>>

(* The settlement signal of a watched trade arrives. *)
Settle(id) ==
    /\ id \in watch \ settled
    /\ settled' = settled \cup {id}
    /\ UNCHANGED <<offer, identity_secret, ignore, watch, trades, events, updates, task,
                   inventory, call>>

WaitForTrade(t) ==
    /\ task[t].pc = "wait_for_trade"
    /\ offer.id \in settled
    /\ Commit(t, Finish(SendDispatch(Machine(t))))
    /\ UNCHANGED <<identity_secret, settled, updates>>

(* The actions of a TradeOffer received from the server. *)
Next ==
    \/ \E data \in Payloads : NewOffer(data)
    \/ \E st \in ETradeOfferState : Update(st)
    \/ \E t \in Tasks : Confirm(t)
    \/ \E t \in Tasks : Accept(t)
    \/ \E t \in Tasks : Decline(t)
    \/ \E t \in Tasks : Cancel(t)
    \/ \E t \in Tasks : Counter(t)
    \/ \E t \in Tasks, resp \in TradeResponses : TradeResponse(t, resp)
    \/ \E t \in Tasks, found \in BOOLEAN : LookupResult(t, found)
    \/ \E t \in Tasks, resp \in ConfResponses : ConfResponse(t, resp)
    \/ \E t \in Tasks : RetryWake(t)
    \/ \E t \in Tasks : TransportFailure(t)

Spec == Init /\ [][Next]_vars

(* The operations of a Confirmation called directly. *)
NextConf ==
    \/ \E t \in Tasks, id \in TradeIds : ConfConfirm(t, id)
    \/ \E t \in Tasks, id \in TradeIds : ConfCancel(t, id)
    \/ \E t \in Tasks, id \in TradeIds : ConfDetails(t, id)
    \/ \E t \in Tasks, resp \in ConfResponses : ConfResponse(t, resp)
    \/ \E t \in Tasks : RetryWake(t)
    \/ \E t \in Tasks : TransportFailure(t)

SpecConf == Init /\ [][NextConf]_vars

(* The send flow. *)
NextSend ==
    \/ \E t \in Tasks, give \in GiveLists, receive \in ReceiveLists : Send(t, give, receive)
    \/ \E t \in Tasks, resp \in TradeResponses : SendResponse(t, resp)
    \/ \E st \in ETradeOfferState : Update(st)
    \/ \E t \in Tasks, found \in BOOLEAN : LookupResult(t, found)
    \/ \E t \in Tasks, resp \in {RespOk, RespBare} : ConfResponse(t, resp)
    \/ \E t \in Tasks : RetryWake(t)
    \/ \E t \in Tasks : TransportFailure(t)
    \/ \E t \in Tasks : SendWake(t)
    \/ \E id \in TradeIds : Settle(id)
    \/ \E t \in Tasks : WaitForTrade(t)

SpecSend == Init /\ [][NextSend]_vars

(* A step of the send flow of task t: what the task waits for ends. *)
SendStep(t) ==
    \/ \E resp \in TradeResponses : SendResponse(t, resp)
    \/ \E found \in BOOLEAN : LookupResult(t, found)
    \/ \E resp \in {RespOk, RespBare} : ConfResponse(t, resp)
    \/ RetryWake(t)
    \/ TransportFailure(t)
    \/ SendWake(t)

(* The send flow up to the wait for the settlement, where every request,    *)
(* lookup and timer a task waits for ends: the event loop resumes every     *)
(* coroutine whose await is over.                                           *)
NextSendLive ==
    \/ \E t \in Tasks, give \in GiveLists, receive \in ReceiveLists : Send(t, give, receive)
    \/ \E t \in Tasks : SendStep(t)

(* User.send does not read the identity secret: one value of it is enough. *)
InitSendLive == Init /\ identity_secret = TRUE

SpecSendLive ==
    InitSendLive /\ [][NextSendLive]_vars /\ \A t \in Tasks : WF_vars(SendStep(t))

---------------------------------------------------------------------------
(* Inventories: what the inventory endpoint answers and the operations of   *)
(* an Inventory.                                                            *)

MaxAssets == 2
MaxDescs == 2

(* (classid, instanceid) of the entries of a payload *)
Keys == {<<1, 1>>, <<1, 2>>, <<2, 1>>}

ItemNames == {"a", "b"}

AssetEntry(i, k) == [assetid |-> i, amount |-> 1, classid |-> k[1], instanceid |-> k[2]]

DescEntries ==
    {[classid |-> 1, instanceid |-> 1, name |-> "a"],
     [classid |-> 1, instanceid |-> 1, name |-> "b"],
     [classid |-> 1, instanceid |-> 2, name |-> "a"],
     [classid |-> 2, instanceid |-> 1, name |-> "b"]}

AssetLists ==
    UNION {{[i \in 1..n |-> AssetEntry(i, ks[i])] : ks \in [1..n -> Keys]} : n \in 0..MaxAssets}

DescLists == UNION {[1..n -> DescEntries] : n \in 0..MaxDescs}

(* The payload of an account with no inventory for the game has no assets. *)
NoAssets ==
    [has_assets |-> FALSE, assets |-> <<>>, descriptions |-> <<>>, total_inventory_count |-> 0]

InventoryPayloads ==
    {NoAssets} \cup
    {[has_assets |-> TRUE, assets |-> as, descriptions |-> ds,
      total_inventory_count |-> Len(as)] : as \in AssetLists, ds \in DescLists}

(* What a later fetch answers with: no assets key, or at most one asset and  *)
(* at most one description, which is then the one of the asset.             *)
RefetchPayloads ==
    {d \in InventoryPayloads :
        /\ d.assets \in {<<>>, <<AssetEntry(1, <<1, 1>>)>>}
        /\ d.descriptions \in {<<>>, <<[classid |-> 1, instanceid |-> 1, name |-> "a"]>>}}

Limits == {NoLimit} \cup {Limit(n) : n \in 0..MaxAssets}

Session == <<offer, identity_secret, ignore, watch, trades, settled, events, task>>

(* Inventory.__init__ *)
InventoryNew(data) ==
    /\ ~inventory.built
    /\ LET r == Inventory_update([NoInventory EXCEPT !.built = TRUE], data) IN
       /\ inventory' = IF r.err = "" THEN r.inv ELSE NoInventory
       /\ call' = [fn |-> "Inventory", args |-> <<NoInventory, data>>, result |-> <<r.err>>]
    /\ UNCHANGED <<Session, updates>>

(* Inventory.update: the game of the inventory is read, the inventory is    *)
(* fetched and _update is applied to the answer.                            *)
InventoryUpdate(data) ==
    /\ inventory.built
    /\ updates < MaxUpdates
    /\ LET r == IF inventory.game = "None"
                THEN [inv |-> inventory, err |-> "AttributeError"]
                ELSE Inventory_update(inventory, data)
       IN  /\ inventory' = r.inv
           /\ call' = [fn |-> "update", args |-> <<inventory, data>>, result |-> <<r.err>>]
    /\ updates' = updates + 1
    /\ UNCHANGED Session

FilterItems(item_name, limit) ==
    /\ inventory.built
    /\ LET r == filter_items(inventory, item_name, limit) IN
       /\ inventory' = r.inv
       /\ call' = [fn |-> "filter_items", args |-> <<inventory, item_name, limit>>,
                   result |-> r.result]
    /\ UNCHANGED <<Session, updates>>

GetItem(item_name) ==
    /\ inventory.built
    /\ LET r == get_item(inventory, item_name) IN
       /\ inventory' = r.inv
       /\ call' = [fn |-> "get_item", args |-> <<inventory, item_name>>, result |-> r.result]
    /\ UNCHANGED <<Session, updates>>

NextInv ==
    \/ \E data \in InventoryPayloads : InventoryNew(data)
    \/ \E data \in RefetchPayloads : InventoryUpdate(data)
    \/ \E item_name \in ItemNames, limit \in Limits : FilterItems(item_name, limit)
    \/ \E item_name \in ItemNames : GetItem(item_name)

(* No operation of an Inventory reads the identity secret. *)
InitInv == Init /\ identity_secret = FALSE

SpecInv == InitInv /\ [][NextInv]_vars

---------------------------------------------------------------------------
(* Offers built from payloads of any items, and the predicates of an offer. *)

(* The item lists of a payload: entry i of a list has asset id first + i. *)
OfferLists(first) ==
    UNION {{[i \in 1..n |-> [assetid |-> first + i, amount |-> 1, classid |-> ks[i][1],
                             instanceid |-> ks[i][2], name |-> "a"]] :
               ks \in [1..n -> Keys]} : n \in 0..MaxAssets}

ItemPayloads ==
    [tradeofferid : OfferIds, trade_offer_state : {"Active"},
     items_to_give : OfferLists(0), items_to_receive : OfferLists(MaxAssets),
     is_our_offer : {FALSE}]

Resting == <<identity_secret, ignore, watch, trades, settled, events, updates, task, inventory>>

(* TradeOffer.__init__ or a refresh by _update: both overwrite every field. *)
OfferFromPayload(data) ==
    /\ offer' = _update(data)
    /\ call' = [fn |-> "_update", args |-> <<data>>, result |-> <<>>]
    /\ UNCHANGED Resting

IsGift ==
    /\ offer.id # 0
    /\ call' = [fn |-> "is_gift", args |-> <<offer>>, result |-> <<is_gift(offer)>>]
    /\ UNCHANGED <<offer, Resting>>

IsOneSided ==
    /\ offer.id # 0
    /\ call' = [fn |-> "is_one_sided", args |-> <<offer>>, result |-> <<is_one_sided(offer)>>]
    /\ UNCHANGED <<offer, Resting>>

NextOffer ==
    \/ \E data \in ItemPayloads : OfferFromPayload(data)
    \/ IsGift
    \/ IsOneSided

SpecOffer == InitInv /\ [][NextOffer]_vars

---------------------------------------------------------------------------
(* The functions of values: the comparisons of assets and the codes. *)

MaxTime == 61
MaxAmount == 2

Secrets == {1, 2}
Timestamps == {NoTimestamp} \cup {Timestamp(n) : n \in 0..MaxTime}
Clock == 1..MaxTime

(* Assets of every key, with several asset ids and amounts. *)
Assets ==
    {Item(0, [assetid |-> a, amount |-> n, classid |-> k[1], instanceid |-> k[2],
              name |-> "None"], FALSE) :
         a \in 1..MaxAssets, n \in 1..MaxAmount, k \in Keys}

(* The arguments of the calls: two operands of a comparison, or a secret,   *)
(* a timestamp and the time of the clock at the call.                      *)
ValueArgs ==
    (Assets \X (Assets \cup {NotAnAsset})) \cup (Secrets \X Timestamps \X Clock)

(* The arguments of one call are drawn and the call is still to be made. *)
InitValues ==
    /\ offer = NoOffer
    /\ identity_secret = FALSE
    /\ ignore = <<>>
    /\ watch = {}
    /\ trades = {}
    /\ settled = {}
    /\ events = <<>>
    /\ updates = 0
    /\ task = [t \in Tasks |-> IdleTask]
    /\ inventory = NoInventory
    /\ call \in {[fn |-> "", args |-> a, result |-> <<>>] : a \in ValueArgs}

Eq ==
    /\ call.fn = "" /\ Len(call.args) = 2
    /\ call' = [call EXCEPT !.fn = "__eq__",
                            !.result = <<Asset_eq(call.args[1], call.args[2])>>]
    /\ UNCHANGED <<offer, Resting>>

Ne ==
    /\ call.fn = "" /\ Len(call.args) = 2
    /\ call' = [call EXCEPT !.fn = "__ne__",
                            !.result = <<Asset_ne(call.args[1], call.args[2])>>]
    /\ UNCHANGED <<offer, Resting>>

GenerateOneTimeCode ==
    /\ call.fn = "" /\ Len(call.args) = 3
    /\ call' = [call EXCEPT !.fn = "generate_one_time_code",
                            !.result = generate_one_time_code(call.args[1], call.args[2],
                                                              call.args[3])]
    /\ UNCHANGED <<offer, Resting>>

NextValues ==
    \/ Eq
    \/ Ne
    \/ GenerateOneTimeCode

SpecValues == InitValues /\ [][NextValues]_vars

---------------------------------------------------------------------------
(* The confirmation operations and the send flow of a session, with the     *)
(* cancellation of the task that runs them.                                 *)

(* task.cancel(): CancelledError is raised at the await the task is         *)
(* suspended in. A request of _perform_op is awaited inside the attempt     *)
(* tenacity decides about; tenacity's own wait, the lookup of a             *)
(* confirmation and the sleep of the send loop are not.                     *)
Cancelled(t) ==
    /\ task[t].pc \notin {"idle", "done"}
    /\ LET m == Raise(Machine(t), "CancelledError", "") IN
       Commit(t, IF m.s.pc = "ajaxop" THEN AfterConfirm(retry(m))
                 ELSE IF m.s.pc \in {"retry_wait", "get_confirmation",
                                     "get_trade_confirmation"}
                 THEN AfterConfirm(m)
                 ELSE Finish(m))
    /\ UNCHANGED <<identity_secret, settled, updates>>

NextCancel ==
    \/ \E t \in Tasks, id \in TradeIds : ConfConfirm(t, id)
    \/ \E t \in Tasks, id \in TradeIds : ConfCancel(t, id)
    \/ \E t \in Tasks, id \in TradeIds : ConfDetails(t, id)
    \/ \E t \in Tasks, give \in GiveLists, receive \in ReceiveLists : Send(t, give, receive)
    \/ \E t \in Tasks, resp \in TradeResponses : SendResponse(t, resp)
    \/ \E t \in Tasks, found \in BOOLEAN : LookupResult(t, found)
    \/ \E t \in Tasks, resp \in ConfResponses : ConfResponse(t, resp)
    \/ \E t \in Tasks : RetryWake(t)
    \/ \E t \in Tasks : TransportFailure(t)
    \/ \E t \in Tasks : SendWake(t)
    \/ \E id \in TradeIds : Settle(id)
    \/ \E t \in Tasks : WaitForTrade(t)
    \/ \E t \in Tasks : Cancelled(t)

SpecCancel == InitSendLive /\ [][NextCancel]_vars

---------------------------------------------------------------------------
(* Two callers of the actions of one TradeOffer: each call runs in a task   *)
(* of its own and the tasks interleave at their awaits.                     *)

Pair == {"t1", "t2"}

InitPair ==
    /\ offer = NoOffer
    /\ identity_secret \in BOOLEAN
    /\ ignore = <<>>
    /\ watch = {}
    /\ trades = {}
    /\ settled = {}
    /\ events = <<>>
    /\ updates = 0
    /\ task = [t \in Pair |-> IdleTask]
    /\ inventory = NoInventory
    /\ call = NoCall

NextPair ==
    \/ \E data \in Payloads : NewOffer(data)
    \/ \E t \in Pair : Confirm(t)
    \/ \E t \in Pair : Accept(t)
    \/ \E t \in Pair : Decline(t)
    \/ \E t \in Pair : Cancel(t)
    \/ \E t \in Pair : Counter(t)
    \/ \E t \in Pair, resp \in TradeResponses : TradeResponse(t, resp)
    \/ \E t \in Pair, found \in BOOLEAN : LookupResult(t, found)
    \/ \E t \in Pair, resp \in {RespOk, RespBare} : ConfResponse(t, resp)
    \/ \E t \in Pair : RetryWake(t)
    \/ \E t \in Pair : TransportFailure(t)

SpecPair == InitPair /\ [][NextPair]_vars

---------------------------------------------------------------------------
(* What the claims speak of *)

TradeActions == {"confirm", "accept", "decline", "cancel", "counter"}

(* The messages of the precondition errors the guards raise. *)
GuardMessages ==
    {"This trade cannot be confirmed",
     "This trade is not active",
     "This trade has already been accepted",
     "You cannot accept an offer the ClientUser has made",
     "This trade has already been declined",
     "You cannot decline an offer the ClientUser has made",
     "This trade has already been cancelled",
     "Offer wasn't created by the ClientUser and therefore cannot be canceled",
     "You cannot counter an offer the ClientUser has made"}

Range(seq) == {seq[i] : i \in 1..Len(seq)}

(* The place in the events of a step where the last TradeOffer action was  *)
(* entered (0: none was entered in the step).                              *)
EnteredAt(ev) ==
    LET I == {i \in 1..Len(ev) : ev[i][1] = "enter" /\ ev[i][2] \in TradeActions}
    IN  IF I = {} THEN 0 ELSE CHOOSE i \in I : \A j \in I : j <= i

(* The last step of the task ended an action of the TradeOffer with a      *)
(* precondition error of its guard.                                        *)
GuardFailed(s) ==
    /\ EnteredAt(s.ev) # 0
    /\ s.ev[Len(s.ev)][1] = "raise"
    /\ s.ev[Len(s.ev)][2] \in GuardMessages

(* Between entering that action and the end of the step no request and no  *)
(* lookup was issued.                                                      *)
NoCallSinceEntry(s) ==
    \A k \in EnteredAt(s.ev)..Len(s.ev) : s.ev[k][1] # "call"

(* The preconditions the actions are documented with. *)
Pre(fn, o) ==
    CASE fn = "confirm" -> ~is_gift(o) /\ o.state \in {"Active", "ConfirmationNeed"}
      [] fn = "accept" -> o.state = "Active" /\ ~o.is_our_offer
      [] fn = "decline" -> o.state \in {"Active", "ConfirmationNeed"} /\ ~o.is_our_offer
      [] fn = "cancel" -> o.state \in {"Active", "ConfirmationNeed"} /\ is_gift(o)
      [] fn = "counter" -> ~o.is_our_offer

(* C1: accept() on an offer whose state is Accepted raises "This trade has *)
(* already been accepted" and issues no accept_user_trade request.         *)
C1_AcceptOnAcceptedSaysAccepted ==
    \A t \in Tasks :
        (/\ task[t].ev # <<>>
         /\ task[t].ev[1] = <<"enter", "accept">>
         /\ task[t].at.state = "Accepted")
        => (/\ task[t].pc = "done"
            /\ task[t].msg = "This trade has already been accepted"
            /\ "accept_user_trade" \notin task[t].calls)

(* C2: a step in which confirm, accept, decline, cancel or counter ends    *)
(* with a precondition error of its guard issues no request and no lookup  *)
(* for that invocation and leaves every field of the offer as it was.      *)
C2_GuardsFailFast ==
    [][\A t \in Tasks :
          (task'[t] # task[t] /\ GuardFailed(task'[t]))
          => (/\ NoCallSinceEntry(task'[t])
              /\ offer' = offer
              /\ task'[t].at = offer)]_vars

C2_Witness ==
    \E t \in Tasks :
        /\ task[t].op = "accept" /\ task[t].pc = "done"
        /\ task[t].msg = "This trade cannot be confirmed"
        /\ GuardFailed(task[t])
        /\ "accept_user_trade" \in task[t].calls

(* C3, as stated: an action entered with its precondition not holding      *)
(* raises; it never returns normally and never goes on to a request.       *)
C3_EveryFailedPreconditionRaises ==
    \A t \in Tasks :
        LET ev == task[t].ev
            i == EnteredAt(ev)
        IN  (i # 0 /\ ~Pre(ev[i][2], task[t].at))
            => (i < Len(ev) /\ ev[i + 1][1] = "raise")

(* C3, amended: an action entered with its precondition not holding        *)
(* raises, except confirm() on a pure gift, which returns normally at once *)
(* without a lookup or a request.                                          *)
C3_FailedPreconditionRaisesButGiftConfirm ==
    \A t \in Tasks :
        LET ev == task[t].ev
            i == EnteredAt(ev)
        IN  (i # 0 /\ ~Pre(ev[i][2], task[t].at))
            => /\ i < Len(ev)
               /\ IF ev[i][2] = "confirm" /\ is_gift(task[t].at)
                  THEN ev[i + 1] = <<"return", "confirm">>
                  ELSE ev[i + 1][1] = "raise"

C3_Witness ==
    \E t \in Tasks :
        /\ task[t].op = "counter" /\ task[t].pc = "done"
        /\ task[t].at.is_our_offer
        /\ task[t].result = "ClientException"
        /\ task[t].calls = {}

(* The operation of a Confirmation the task runs was called directly. *)
Runs(s, name) == s.op = name /\ s.pc # "idle"

Ended(s) == s.pc = "done"

Failed(s) == s.pc = "done" /\ s.result # "ok"

(* C4: confirm() whose first two responses are exactly {"success": false}  *)
(* and whose third is {"success": true} is still running after the first   *)
(* and after the second, and returns successfully after exactly 3 requests.*)
C4_AllowSucceedsOnThirdAttempt ==
    \A t \in Tasks :
        (Runs(task[t], "Confirmation.confirm") /\ task[t].failed = 0)
        => /\ task[t].resps \in {<<RespBare>>, <<RespBare, RespBare>>}
                => task[t].pc \in {"retry_wait", "ajaxop"}
           /\ task[t].resps = <<RespBare, RespBare, RespOk>>
                => (/\ task[t].pc = "done"
                    /\ task[t].result = "ok"
                    /\ task[t].reqs = 3)

C4_Witness ==
    \E t \in Tasks :
        /\ Runs(task[t], "Confirmation.confirm") /\ task[t].failed = 0
        /\ task[t].resps = <<RespBare, RespBare, RespOk>>
        /\ task[t].result = "ok"

(* C5: cancel() or details() that receives a {"success": false} response   *)
(* fails at once: one request was sent and no wait and no retry follows.   *)
C5_OnlyAllowIsRetried ==
    \A t \in Tasks :
        (/\ Runs(task[t], "Confirmation.cancel") \/ Runs(task[t], "Confirmation.details")
         /\ task[t].failed = 0
         /\ task[t].resps # <<>>
         /\ task[t].resps[1] = RespBare)
        => (/\ Failed(task[t])
            /\ task[t].reqs = 1
            /\ task[t].waits = <<>>)

(* C6: one call of confirm() sends at most 4 requests, and before each     *)
(* request but the first it has waited 4 time units, once.                 *)
C6_AtMostFourAttemptsFixedWait ==
    \A t \in Tasks :
        Runs(task[t], "Confirmation.confirm")
        => /\ task[t].reqs <= 4
           /\ \A i \in 1..Len(task[t].waits) : task[t].waits[i] = 4
           /\ Len(task[t].waits) =
                 IF task[t].pc = "retry_wait" THEN task[t].reqs ELSE task[t].reqs - 1

C6_Witness ==
    \E t \in Tasks :
        /\ Runs(task[t], "Confirmation.confirm")
        /\ task[t].reqs = 4
        /\ task[t].waits = <<4, 4, 4>>
        /\ Ended(task[t])

(* C7: when all 4 attempts of confirm() were answered with a falsy success *)
(* the caller receives the error of the last attempt, ConfirmationError.   *)
C7_ExhaustedRetriesRaiseLastError ==
    \A t \in Tasks :
        (/\ Runs(task[t], "Confirmation.confirm")
         /\ task[t].failed = 0
         /\ Len(task[t].resps) = 4
         /\ \A i \in 1..4 : ~GetSuccess(task[t].resps[i]))
        => (Failed(task[t]) /\ task[t].result = "ConfirmationError")

(* C8: confirm() that receives a falsy success in a response that is not   *)
(* exactly {"success": false} fails with ConfirmationError after that one  *)
(* request.                                                                *)
C8_RejectionIsNotRetried ==
    \A t \in Tasks :
        (/\ Runs(task[t], "Confirmation.confirm")
         /\ task[t].failed = 0
         /\ task[t].resps # <<>>
         /\ task[t].resps[1] \in {RespRejected, RespNoSuccess})
        => (/\ Failed(task[t])
            /\ task[t].result = "ConfirmationError"
            /\ task[t].reqs = 1)

(* C9: in confirm(), cancel() and details(), a step that receives a        *)
(* response with a falsy or absent success leaves the trade id of the      *)
(* confirmation in the collection to ignore, so it is there when the       *)
(* operation ends; a step that receives a truthy success leaves the        *)
(* collection as it was.                                                   *)
C9_FalsySuccessIsRecorded ==
    [][\A t \in Tasks :
          (/\ task[t].pc \in {"ajaxop", "details"}
           /\ Len(task'[t].resps) = Len(task[t].resps) + 1)
          => LET resp == task'[t].resps[Len(task'[t].resps)] IN
             IF GetSuccess(resp) THEN ignore' = ignore
             ELSE task'[t].conf \in Range(ignore')]_vars

C9_Witness ==
    \E t \in Tasks :
        /\ Runs(task[t], "Confirmation.details")
        /\ task[t].resps = <<RespNoSuccess>>
        /\ Failed(task[t])
        /\ task[t].conf \in Range(ignore)

(* An outcome of trade.confirm() the loop of the send flow retries after. *)
Retryable(o) ==
    o # "ok" /\ IsInstance(o, "ClientException") /\ ~IsInstance(o, "ConfirmationError")

StrictlyIncreasing(seq) == \A i \in 1..(Len(seq) - 1) : seq[i] < seq[i + 1]

(* C10: in the send flow with a confirmation pending, while the attempts   *)
(* of trade.confirm() so far (at most 4) all raised ClientException the    *)
(* flow goes on; when attempts 1 to 4 raised it and attempt 5 succeeded,   *)
(* the flow has slept 4 times with strictly increasing delays, has left    *)
(* the loop for the wait of the settlement, and if it ended, it succeeded. *)
C10_SendSucceedsOnFifthAttempt ==
    \A t \in Tasks :
        LET o == task[t].outcomes IN
        Runs(task[t], "send")
        => /\ (Len(o) \in 1..4 /\ \A i \in 1..Len(o) : Retryable(o[i]))
                => (task[t].result = "" /\ Len(task[t].slept) = Len(o))
           /\ (Len(o) = 5 /\ (\A i \in 1..4 : Retryable(o[i])) /\ o[5] = "ok")
                => (/\ Len(task[t].slept) = 4
                    /\ StrictlyIncreasing(task[t].slept)
                    /\ task[t].pc \in {"wait_for_trade", "done"}
                    /\ Ended(task[t]) => task[t].result = "ok")

C10_Witness ==
    \E t \in Tasks :
        /\ Runs(task[t], "send")
        /\ Len(task[t].outcomes) = 5
        /\ \A i \in 1..4 : Retryable(task[t].outcomes[i])
        /\ task[t].outcomes[5] = "ok"
        /\ task[t].slept = <<0, 2, 4, 6>>
        /\ Ended(task[t]) /\ task[t].result = "ok"

(* The outcomes of trade.confirm() before place i that the loop slept after. *)
RetriedBefore(o, i) == {j \in 1..(i - 1) : Retryable(o[j])}

(* C11: in the send flow, an attempt of trade.confirm() that raised         *)
(* ConfirmationError is the last one: the flow has left the loop, no        *)
(* attempt follows it, and the flow has slept only after the failed         *)
(* attempts before it (never, when it is the first attempt).                *)
C11_ConfirmationErrorEndsTheLoop ==
    \A t \in Tasks :
        LET o == task[t].outcomes IN
        Runs(task[t], "send")
        => \A i \in 1..Len(o) :
               IsInstance(o[i], "ConfirmationError")
               => /\ i = Len(o)
                  /\ task[t].pc \in {"wait_for_trade", "done"}
                  /\ Len(task[t].slept) = Cardinality(RetriedBefore(o, i))

C11_Witness ==
    \E t \in Tasks :
        /\ Runs(task[t], "send")
        /\ task[t].outcomes = <<"ConfirmationError">>
        /\ task[t].slept = <<>>
        /\ Ended(task[t]) /\ task[t].result = "ok"

(* C12: in the send flow the trade id is added to the trades to watch in a  *)
(* step after the send_trade_offer request has completed, and the flow then *)
(* waits for that trade; the "trade_send" event is dispatched, once, in the *)
(* step in which wait_for_trade completes, for the watched trade whose      *)
(* settlement signal has arrived, and send returns in that step, after it.  *)
C12_SendOrder ==
    [][\A t \in Tasks :
          Runs(task'[t], "send")
          => /\ task'[t].pc = "wait_for_trade" => offer'.id \in watch'
             /\ watch' # watch
                   => (/\ task[t].pc \notin {"idle", "wait_for_trade", "done"}
                       /\ "send_trade_offer" \in task[t].calls
                       /\ task'[t].pc = "wait_for_trade"
                       /\ task'[t].rid = offer'.id
                       /\ watch' = watch \cup {offer'.id})
             /\ events' # events
                   => (/\ task[t].pc = "wait_for_trade"
                       /\ offer.id \in watch /\ offer.id \in settled
                       /\ events' = Append(events, <<"trade_send", offer.id>>)
                       /\ task'[t].ev = <<<<"dispatch", "trade_send">>, <<"return", "send">>>>
                       /\ task'[t].pc = "done" /\ task'[t].result = "ok")
             /\ (task'[t].pc = "done" /\ task[t].pc # "done" /\ task'[t].result = "ok")
                   => (events' # events /\ task[t].pc = "wait_for_trade")]_vars

C12_Witness ==
    \E t \in Tasks :
        /\ Runs(task[t], "send") /\ Ended(task[t]) /\ task[t].result = "ok"
        /\ events = <<<<"trade_send", offer.id>>>>
        /\ offer.id \in watch /\ offer.id \in settled

(* The task is inside the confirmation loop of the send flow or about to    *)
(* enter it.                                                               *)
InSendLoop(s) ==
    s.pc \in {"send_trade_offer", "get_confirmation", "ajaxop", "retry_wait", "sleep"}

(* C13: when the send response flagged needs_mobile_confirmation, the step  *)
(* in which the flow leaves the confirmation loop (the attempts succeeded,  *)
(* one raised ConfirmationError, or all 5 raised ClientException) leaves    *)
(* the state of the offer Active.                                          *)
C13_ActiveAfterLoop ==
    [][\A t \in Tasks :
          (/\ Runs(task'[t], "send")
           /\ task'[t].flag
           /\ InSendLoop(task[t])
           /\ task'[t].pc = "wait_for_trade")
          => offer'.state = "Active"]_vars

C13_Witness ==
    \E t \in Tasks :
        /\ Runs(task[t], "send") /\ task[t].flag
        /\ Len(task[t].outcomes) = 5
        /\ \A i \in 1..5 : Retryable(task[t].outcomes[i])
        /\ task[t].pc = "wait_for_trade"
        /\ offer.state = "Active"

RECURSIVE ExpectedSleeps(_, _)

(* The sleeps the claim expects after the outcomes o[i], o[i+1], ...: 2*k   *)
(* after the attempt of index k (counted from 0) when it raised a           *)
(* ClientException that is no ConfirmationError.                            *)
ExpectedSleeps(o, i) ==
    IF i > Len(o) THEN <<>>
    ELSE (IF Retryable(o[i]) THEN <<2 * (i - 1)>> ELSE <<>>) \o ExpectedSleeps(o, i + 1)

(* The calls of trade.confirm() made so far: those that ended and the one   *)
(* that is running.                                                        *)
ConfirmCalls(s) ==
    Len(s.outcomes) + (IF s.pc \in {"get_confirmation", "ajaxop", "retry_wait"} THEN 1 ELSE 0)

SendLoopBounded ==
    \A t \in Tasks :
        Runs(task[t], "send")
        => /\ ConfirmCalls(task[t]) <= 5
           /\ task[t].slept = ExpectedSleeps(task[t].outcomes, 1)

SendLoopEnds ==
    \A t \in Tasks :
        (Runs(task[t], "send") /\ task[t].pc \in {"get_confirmation", "ajaxop", "retry_wait", "sleep"})
        ~> (task[t].pc \in {"wait_for_trade", "done"})

(* C14: in the send flow trade.confirm() is called at most 5 times, the     *)
(* flow has slept 2*k after each attempt of index k (from 0) that raised    *)
(* ClientException and after no other, and a flow that is in the loop       *)
(* leaves it, provided every request, lookup and timer it waits for ends.   *)
C14_SendLoopBoundedAndEnds == []SendLoopBounded /\ SendLoopEnds

C14_Witness ==
    \E t \in Tasks :
        /\ Runs(task[t], "send")
        /\ Len(task[t].outcomes) = 5
        /\ task[t].slept = <<0, 2, 4, 6, 8>>
        /\ task[t].pc = "wait_for_trade"

(* C15: decline() has issued the decline_user_trade request exactly when    *)
(* the offer it was called on was Active or ConfirmationNeed and not ours.  *)
C15_DeclineExactlyWhenAllowed ==
    \A t \in Tasks :
        Runs(task[t], "decline")
        => ("decline_user_trade" \in task[t].calls
               <=> (/\ task[t].at.state \in {"Active", "ConfirmationNeed"}
                    /\ ~is_our_offer(task[t].at)))

(* C16: cancel() has issued the cancel_user_trade request exactly when the  *)
(* offer it was called on was Active or ConfirmationNeed and a gift; on an  *)
(* offer that is no gift and not ours it fails and issues no request.       *)
C16_CancelExactlyWhenAllowed ==
    \A t \in Tasks :
        Runs(task[t], "cancel")
        => /\ "cancel_user_trade" \in task[t].calls
                 <=> (/\ task[t].at.state \in {"Active", "ConfirmationNeed"}
                      /\ is_gift(task[t].at))
           /\ (~is_gift(task[t].at) /\ ~is_our_offer(task[t].at))
                 => (Failed(task[t]) /\ task[t].calls = {})

(* accept() of the task has received the answer of the accept endpoint. *)
AcceptAnswered(s) == Runs(s, "accept") /\ s.rid # None

(* The task has sent the 'allow' operation for the confirmation of trade id. *)
Allowed(s, id) == "ajaxop" \in s.calls /\ s.cop = "allow" /\ s.conf = id

(* C17, as stated: once accept() has ended after the accept endpoint has    *)
(* answered (no request failed, the manager had the confirmation if asked,  *)
(* the offer was not refreshed meanwhile), 'allow' was performed on the     *)
(* confirmation of the offer's id exactly if the answer flagged             *)
(* needs_mobile_confirmation and an identity secret is configured.          *)
C17_AutoConfirmIffFlaggedAndSecret ==
    \A t \in Tasks :
        (/\ AcceptAnswered(task[t]) /\ Ended(task[t])
         /\ task[t].failed = 0 /\ task[t].got # "None" /\ task[t].at = offer)
        => (Allowed(task[t], offer.id) <=> (task[t].flag /\ identity_secret))

(* C17, amended: after the accept endpoint has answered, 'allow' is sent,   *)
(* and for the confirmation of the offer's id, exactly if the answer        *)
(* flagged needs_mobile_confirmation, an identity secret is configured, the *)
(* offer is no pure gift, its state is Active or ConfirmationNeed when the  *)
(* answer arrives, and the manager returned a confirmation for its id;      *)
(* without flag or secret accept() ends with no lookup at all.              *)
C17_AutoConfirmUnlessGift ==
    \A t \in Tasks :
        AcceptAnswered(task[t])
        => /\ "ajaxop" \in task[t].calls
                 <=> (/\ task[t].flag /\ identity_secret
                      /\ ~is_gift(task[t].at)
                      /\ task[t].at.state \in {"Active", "ConfirmationNeed"}
                      /\ task[t].got = "Confirmation")
           /\ "ajaxop" \in task[t].calls
                 => (Allowed(task[t], offer.id) /\ task[t].lookup = offer.id)
           /\ ~(task[t].flag /\ identity_secret)
                 => (/\ Ended(task[t]) /\ task[t].result = "ok"
                     /\ task[t].calls = {"accept_user_trade"})

C17_Witness ==
    \E t \in Tasks :
        /\ AcceptAnswered(task[t]) /\ task[t].flag /\ identity_secret
        /\ Allowed(task[t], offer.id)
        /\ Ended(task[t]) /\ task[t].result = "ok"

(* C18: confirm() called on an offer that is no gift: in state Active or    *)
(* ConfirmationNeed it asks the manager for the confirmation of the offer's *)
(* own id; once the manager has returned one, 'allow' is sent for exactly   *)
(* that confirmation; once it has returned none, confirm() has ended with   *)
(* ConfirmationError and sent no confirmation request.  In any other state  *)
(* it has ended with ClientException and has not asked the manager.         *)
C18_ConfirmLooksUpOwnId ==
    \A t \in Tasks :
        (Runs(task[t], "confirm") /\ ~is_gift(task[t].at))
        => IF task[t].at.state \in {"Active", "ConfirmationNeed"}
           THEN /\ "get_confirmation" \in task[t].calls
                /\ task[t].lookup = task[t].at.id
                /\ task[t].got = "Confirmation"
                      => (Allowed(task[t], task[t].at.id) /\ task[t].reqs >= 1)
                /\ task[t].got = "None"
                      => (/\ Ended(task[t]) /\ task[t].result = "ConfirmationError"
                          /\ "ajaxop" \notin task[t].calls /\ task[t].reqs = 0)
                /\ task[t].got = "" => "ajaxop" \notin task[t].calls
           ELSE /\ Ended(task[t]) /\ task[t].result = "ClientException"
                /\ task[t].msg = "This trade cannot be confirmed"
                /\ task[t].calls = {}

C18_Witness ==
    \E t \in Tasks :
        /\ Runs(task[t], "confirm") /\ ~is_gift(task[t].at)
        /\ task[t].at.state = "ConfirmationNeed"
        /\ task[t].got = "None"
        /\ task[t].result = "ConfirmationError"

(* C19: counter() on an offer that is ours has ended with ClientException   *)
(* before any request; on an offer that is not ours it has submitted the    *)
(* counter offer, and when the answer flags needs_mobile_confirmation the   *)
(* confirmation it looks up, and the one it sends 'allow' for, is that of   *)
(* the trade id of the answer, whatever the id of the countered offer is.   *)
C19_CounterConfirmsNewId ==
    \A t \in Tasks :
        Runs(task[t], "counter")
        => IF is_our_offer(task[t].at)
           THEN /\ Ended(task[t]) /\ task[t].result = "ClientException"
                /\ task[t].calls = {}
           ELSE /\ "send_counter_trade_offer" \in task[t].calls
                /\ (task[t].rid # None /\ task[t].flag)
                      => (/\ "get_trade_confirmation" \in task[t].calls
                          /\ task[t].lookup = task[t].rid)
                /\ (task[t].rid # None /\ ~task[t].flag)
                      => (/\ Ended(task[t]) /\ task[t].result = "ok"
                          /\ task[t].calls = {"send_counter_trade_offer"})
                /\ "ajaxop" \in task[t].calls
                      => (Allowed(task[t], task[t].rid) /\ task[t].got = "Confirmation")

C19_Witness ==
    \E t \in Tasks :
        /\ Runs(task[t], "counter") /\ ~is_our_offer(task[t].at)
        /\ task[t].flag /\ task[t].rid # offer.id
        /\ Allowed(task[t], task[t].rid)
        /\ Ended(task[t]) /\ task[t].result = "ok"

(* C20: in confirm(), in the auto-confirm step of accept() and in the       *)
(* confirmation step of counter(), once the confirmation manager has        *)
(* answered that it has no confirmation for the trade id, the action has    *)
(* ended with ConfirmationError.                                           *)
C20_NoConfirmationIsConfirmationError ==
    \A t \in Tasks :
        (/\ Runs(task[t], "confirm") \/ Runs(task[t], "accept") \/ Runs(task[t], "counter")
         /\ task[t].got = "None")
        => (Ended(task[t]) /\ task[t].result = "ConfirmationError")


---------------------------------------------------------------------------
(* Inventories and items *)

(* The descriptions of a payload that describe the asset. *)
Matching(asset, descriptions) ==
    SelectSeq(descriptions,
              LAMBDA d : d.instanceid = asset.instanceid /\ d.classid = asset.classid)

(* The last call was fn and it returned. *)
Returned(fn) == call.fn = fn /\ call.result = <<"">>

(* The items of the list that were built for the asset. *)
ItemsOf(items, asset) == SelectSeq(items, LAMBDA it : it.asset_id = asset.assetid)

(* C21: an inventory built from a payload has exactly one Item per asset,   *)
(* in the order of the assets, and an Item is flagged missing exactly when  *)
(* no description of the payload matches its asset; so N assets with one    *)
(* matching description each give N items, none of them flagged missing.    *)
C21_OneItemPerAsset ==
    (Returned("Inventory") /\ call.args[2].has_assets) =>
        LET data == call.args[2] IN
        /\ Len(inventory.items) = Len(data.assets)
        /\ \A i \in 1..Len(data.assets) :
              /\ inventory.items[i].asset_id = data.assets[i].assetid
              /\ inventory.items[i].missing <=>
                     (Matching(data.assets[i], data.descriptions) = <<>>)

(* C22: when several descriptions of the payload match an asset, the        *)
(* inventory holds a single Item for that asset and it is built from the    *)
(* first of them.                                                           *)
C22_FirstMatchWins ==
    (Returned("Inventory") /\ call.args[2].has_assets) =>
        LET data == call.args[2] IN
        \A i \in 1..Len(data.assets) :
            LET found == Matching(data.assets[i], data.descriptions)
                built == ItemsOf(inventory.items, data.assets[i])
            IN  Len(found) > 1 =>
                    /\ Len(built) = 1
                    /\ built[1].name = found[1].name
                    /\ ~built[1].missing


(* C23: filter_items(name) without a limit returns every item of that name, *)
(* in the order of the inventory, and no item of that name is left in the   *)
(* inventory.                                                               *)
C23_FilterWithoutLimitTakesAll ==
    (call.fn = "filter_items" /\ ~call.args[3].given) =>
        /\ call.result = Named(call.args[1].items, call.args[2])
        /\ Named(inventory.items, call.args[2]) = <<>>

(* C24: get_item(name) returns the first item of that name and leaves the   *)
(* list one shorter; when no item has the name it returns None and leaves   *)
(* the list as it was.                                                      *)
C24_GetItemConsumes ==
    call.fn = "get_item" =>
        LET before == call.args[1].items
            found == Named(before, call.args[2])
        IN  IF found # <<>>
            THEN /\ call.result = <<found[1]>>
                 /\ Len(inventory.items) = Len(before) - 1
            ELSE /\ call.result = <<>>
                 /\ inventory.items = before

(* get_item has returned the first of two items of the name. *)
C24_Witness ==
    /\ call.fn = "get_item"
    /\ Len(Named(call.args[1].items, call.args[2])) > 1
    /\ call.result = <<Named(call.args[1].items, call.args[2])[1]>>
    /\ Len(inventory.items) = Len(call.args[1].items) - 1


---------------------------------------------------------------------------
(* Offers, assets and codes *)

(* No item of the first list is equal to an item of the second. *)
Disjoint(xs, ys) ==
    \A i \in 1..Len(xs), j \in 1..Len(ys) : ~Asset_eq(xs[i], ys[j])

(* No entry of the first list has the class id and instance id of an entry  *)
(* of the second.                                                           *)
ShareNoKey(xs, ys) ==
    \A i \in 1..Len(xs), j \in 1..Len(ys) :
        ~(xs[i].classid = ys[j].classid /\ xs[i].instanceid = ys[j].instanceid)

(* C25: is_gift() holds exactly when items_to_receive is non-empty and      *)
(* items_to_send is empty; is_one_sided() holds exactly when exactly one of *)
(* the lists is non-empty; so a gift is one-sided, and an offer with both   *)
(* lists non-empty or both empty is neither.                                *)
C25_GiftAndOneSided ==
    /\ call.fn = "is_gift" =>
          call.result = <<Len(call.args[1].items_to_receive) > 0
                          /\ Len(call.args[1].items_to_send) = 0>>
    /\ call.fn = "is_one_sided" =>
          call.result = <<(Len(call.args[1].items_to_receive) > 0)
                          # (Len(call.args[1].items_to_send) > 0)>>
    /\ offer.id # 0 =>
          /\ is_gift(offer) => is_one_sided(offer)
          /\ ((Len(offer.items_to_receive) > 0) = (Len(offer.items_to_send) > 0)) =>
                 ~is_gift(offer) /\ ~is_one_sided(offer)

(* is_one_sided() was asked of a gift. *)
C25_Witness ==
    /\ call.fn = "is_one_sided"
    /\ call.result = <<TRUE>>
    /\ call.args[1].items_to_send = <<>>
    /\ call.args[1].items_to_receive # <<>>

(* C26 as stated: in every offer built or refreshed by _update, whatever    *)
(* the payload, no item to send is equal to an item to receive.             *)
C26_ListsDisjoint ==
    offer.id # 0 => Disjoint(offer.items_to_send, offer.items_to_receive)

(* C26: an offer built or refreshed by _update holds the items of the two   *)
(* lists of the payload, in their order; its lists are disjoint when the    *)
(* lists of the payload share no (classid, instanceid), and they are not    *)
(* when the payload has such a pair on both sides.                          *)
C26_DisjointWhenPayloadIs ==
    call.fn = "_update" =>
        LET data == call.args[1] IN
        /\ offer.items_to_send = Items(data.items_to_give)
        /\ offer.items_to_receive = Items(data.items_to_receive)
        /\ Disjoint(offer.items_to_send, offer.items_to_receive)
               <=> ShareNoKey(data.items_to_give, data.items_to_receive)

(* An offer was built from a payload with items on both sides that share no *)
(* key.                                                                     *)
C26_Witness ==
    /\ call.fn = "_update"
    /\ call.args[1].items_to_give # <<>>
    /\ call.args[1].items_to_receive # <<>>
    /\ ShareNoKey(call.args[1].items_to_give, call.args[1].items_to_receive)
    /\ Disjoint(offer.items_to_send, offer.items_to_receive)

(* C27: for every secret and every timestamp that is passed, 0 included,    *)
(* the code does not depend on the clock, and it depends on the timestamp   *)
(* only through the window floor(timestamp / 30).                           *)
C27_CodeDependsOnWindowOnly ==
    (call.fn = "generate_one_time_code" /\ call.args[2].given) =>
        /\ \A now \in Clock :
              generate_one_time_code(call.args[1], call.args[2], now) = call.result
        /\ \A ts \in Timestamps :
              (ts.given /\ ts.value \div Period = call.args[2].value \div Period) =>
                  generate_one_time_code(call.args[1], ts, call.args[3]) = call.result

(* C28: two assets are equal exactly when their class ids and their         *)
(* instance ids are equal, whatever their amounts and asset ids, and        *)
(* x != y is the negation of x == y for every operand y.                    *)
C28_EqualityByClassAndInstance ==
    /\ (call.fn = "__eq__" /\ call.args[2].class = "Item") =>
          call.result = <<call.args[1].class_id = call.args[2].class_id
                          /\ call.args[1].instance_id = call.args[2].instance_id>>
    /\ call.fn = "__ne__" =>
          call.result = <<~Asset_eq(call.args[1], call.args[2])>>

(* Two assets of different asset ids and amounts were found equal. *)
C28_Witness ==
    /\ call.fn = "__eq__"
    /\ call.result = <<TRUE>>
    /\ call.args[1].asset_id # call.args[2].asset_id
    /\ call.args[1].amount # call.args[2].amount


---------------------------------------------------------------------------
(* The collections of the session and the cancellation of a task *)

IsPrefix(xs, ys) == Len(xs) <= Len(ys) /\ SubSeq(ys, 1, Len(xs)) = xs

(* A retry loop is running in the task: the allow retry of _perform_op, or  *)
(* the confirmation loop of the send flow, at a request or in a wait.       *)
RetryLoopRunning(s) ==
    \/ s.cop = "allow" /\ s.pc \in {"ajaxop", "retry_wait"}
    \/ s.op = "send" /\ s.pc \in {"get_confirmation", "ajaxop", "retry_wait", "sleep"}

C30_CancellationEndsTheLoop ==
    [][\A t \in Tasks :
          /\ (Cancelled(t) /\ RetryLoopRunning(task[t])) =>
                /\ task'[t].pc = "done"
                /\ task'[t].result = "CancelledError"
                /\ task'[t].reqs = task[t].reqs
                /\ task'[t].waits = task[t].waits
                /\ task'[t].slept = task[t].slept
          /\ task[t].pc = "done" => task'[t] = task[t]]_vars

(* A send flow was cancelled in its loop after an attempt had failed and    *)
(* the loop had slept.                                                      *)
C30_Witness ==
    \E t \in Tasks :
        /\ task[t].op = "send"
        /\ task[t].pc = "done"
        /\ task[t].result = "CancelledError"
        /\ task[t].slept # <<>>


---------------------------------------------------------------------------
(* Consuming reads and refreshes of an inventory *)

(* The objects of a list. *)
Objects(items) == {items[i].oid : i \in 1..Len(items)}

(* Two lists hold items of the same data in the same order. *)
SameItems(xs, ys) ==
    /\ Len(xs) = Len(ys)
    /\ \A i \in 1..Len(xs) : [xs[i] EXCEPT !.oid = 0] = [ys[i] EXCEPT !.oid = 0]

(* C35: after filter_items or get_item has returned, the list is shorter by *)
(* the number of items returned and no object that was returned is still in *)
(* the list, also when the inventory holds items that are equal as assets.  *)
C35_ReturnedItemsAreRemoved ==
    call.fn \in {"filter_items", "get_item"} =>
        /\ Len(inventory.items) = Len(call.args[1].items) - Len(call.result)
        /\ Objects(call.result) \cap Objects(inventory.items) = {}

(* C36: after update() has returned, the list holds the items of the        *)
(* fetched payload and no others, as an inventory built from that payload   *)
(* does.                                                                    *)
C36_UpdateReflectsNewPayloadOnly ==
    Returned("update") =>
        SameItems(inventory.items,
                  Inventory_update([NoInventory EXCEPT !.built = TRUE],
                                   call.args[2]).inv.items)


---------------------------------------------------------------------------
(* Repeated calls *)

(* C32: in the send flow a call of trade.confirm() that has returned is the *)
(* last call of trade.confirm() of that send.                               *)
C32_NoConfirmAfterSuccess ==
    \A t \in Tasks :
        Runs(task[t], "send") =>
            \A i \in 1..Len(task[t].outcomes) :
                task[t].outcomes[i] = "ok" => ConfirmCalls(task[t]) = i


(* How often the id is in the list. *)
Occurrences(seq, id) == Cardinality({i \in 1..Len(seq) : seq[i] = id})

(* C33: a call of Confirmation.confirm() that returns has not added the     *)
(* trade id of the confirmation to the collection to ignore, and a call     *)
(* adds the trade id at most once.                                          *)
C33_SuccessLeavesNoIgnoreEntry ==
    \A t \in Tasks :
        Runs(task[t], "Confirmation.confirm") =>
            /\ (Ended(task[t]) /\ task[t].result = "ok") => task[t].conf \notin Range(ignore)
            /\ Occurrences(ignore, task[t].conf) <= 1


---------------------------------------------------------------------------
(* Two calls on one offer *)

(* The request an action issues once its guards have passed. *)
RequestOf(op) ==
    CASE op = "accept" -> "accept_user_trade"
      [] op = "decline" -> "decline_user_trade"
      [] op = "cancel" -> "cancel_user_trade"
      [] op = "counter" -> "send_counter_trade_offer"
      [] OTHER -> "get_confirmation"

(* Task t starts the action op in this step. *)
Starts(t, op) == task[t].pc = "idle" /\ task'[t].op = op

(* C31: nothing serializes the actions of one offer: while accept() of one  *)
(* task awaits its request on an Active offer that is not ours, accept() or *)
(* decline() started by another task passes its guards and issues its       *)
(* request too, so both requests are in flight.                             *)
C31_ConcurrentActionsBothIssue ==
    [][\A t \in Pair, u \in Pair, op \in {"accept", "decline"} :
          (/\ t # u
           /\ task[u].pc = "accept_user_trade"
           /\ offer.state = "Active" /\ ~offer.is_our_offer
           /\ Starts(t, op))
          => /\ task'[t].pc = RequestOf(op)
             /\ task'[u].pc = "accept_user_trade"]_vars


(* C34: no step of confirm, accept, decline, cancel or counter changes a    *)
(* field of the offer, whether the action succeeds or fails; so accept()    *)
(* started after another accept() of the same offer has issued its request  *)
(* and ended passes the guards again and issues a second accept request.    *)
C34_ActionsLeaveOfferUnchanged ==
    [][/\ (\E t \in Pair : task'[t] # task[t]) => offer' = offer
       /\ \A t \in Pair, u \in Pair :
             (/\ t # u
              /\ task[u].op = "accept" /\ Ended(task[u])
              /\ "accept_user_trade" \in task[u].calls
              /\ Starts(t, "accept"))
             => task'[t].pc = "accept_user_trade"]_vars

(* An accept() has returned and a second accept() of the offer, started     *)
(* with no request of its own issued yet, has issued its request.           *)
C34_Witness ==
    \E t \in Pair, u \in Pair :
        /\ t # u
        /\ task[u].op = "accept" /\ Ended(task[u]) /\ task[u].result = "ok"
        /\ task[t].op = "accept" /\ task[t].pc = "accept_user_trade"
        /\ task[t].at = offer /\ offer.state = "Active"

=============================================================================
